---- MODULE Spec2Model ----
(***************************************************************************)
(* FileInASnap: the ai-detect-duplicates edge function                     *)
(* (supabase/functions/ai-detect-duplicates/index.ts) as a state machine.  *)
(*                                                                         *)
(* One behaviour is one request.  The request body (files,                 *)
(* similarityThreshold, includeSimilar), the HTTP method and the           *)
(* deployment's Supabase configuration are drawn in Init; the answers of   *)
(* the similarity collaborator (the OpenRouter chat completion) and of the *)
(* Supabase auth endpoint are drawn in the actions that await them.        *)
(*                                                                         *)
(* Numbers: a similarity score or threshold s is held as the integer       *)
(* 100*s; a *_mb value that the code rounds with toFixed(2) is held in     *)
(* hundredths of a megabyte; the unrounded total_size_mb is held as its    *)
(* numerator in bytes (total_size_mb = total_size_bytes / 1048576).        *)
(* A file object is identified by its position in the request's array.     *)
(***************************************************************************)
EXTENDS Integers, Sequences, FiniteSets, TLC

\* ------------------------------------------------------------------ bounds

\* Longest files array of a request.
MaxFiles == 3

\* ------------------------------------------------------- program constants

\* index.ts:176  (file.size || 0) / (1024 * 1024)
BytesPerMB == 1048576

\* index.ts:152  similarity_score: 1.0 of an exact group, in hundredths
ExactScore == 100

\* ------------------------------------------------------------------ inputs

\* File descriptors a request may carry.  "" stands for an absent field.
\*   a1, b1 : same caller-supplied hash (an exact pair); a1 is a candidate of
\*            the similarity pass by its mime type only, b1 also by content;
\*   c0, c0n: no hash, same name, size and mime type (an exact pair by the
\*            surrogate key); only c0 has content, c0n is no candidate;
\*   a2     : carries the file name of a1 under another hash.
FileUniverse ==
    { [fileName |-> "a.txt", size |-> 131072,  mimeType |-> "text/plain",
       content |-> "",  hash |-> "h1"],
      [fileName |-> "b.txt", size |-> 0,       mimeType |-> "text/plain",
       content |-> "x", hash |-> "h1"],
      [fileName |-> "c.pdf", size |-> 4194,    mimeType |-> "application/pdf",
       content |-> "y", hash |-> ""],
      [fileName |-> "c.pdf", size |-> 4194,    mimeType |-> "application/pdf",
       content |-> "",  hash |-> ""],
      [fileName |-> "a.txt", size |-> 1048576, mimeType |-> "text/plain",
       content |-> "x", hash |-> "h2"] }

FileLists == UNION { [1..n -> FileUniverse] : n \in 0..MaxFiles }

\* similarityThreshold values of a request (0.9 is the default, index.ts:15).
Thresholds == {90, 95, 97}

\* similarity_score values the collaborator answers, within its interface [0,1].
Scores == {90, 95}

Methods == {"POST", "OPTIONS"}

\* ----------------------------------------------------------------- helpers

\* A variant of FileHash: the caller's hash is ignored.
FileHashSurrogateOnly(f) ==
    f.fileName \o "_" \o ToString(f.size) \o "_"
    \o (IF f.mimeType = "" THEN "undefined" ELSE f.mimeType)

\* index.ts:39, 67-68  hash || `${fileName}_${size}_${mimeType}`
FileHash(f) ==
    IF f.hash # ""
    THEN f.hash
    ELSE f.fileName \o "_" \o ToString(f.size) \o "_"
         \o (IF f.mimeType = "" THEN "undefined" ELSE f.mimeType)

\* index.ts:52  f.mimeType?.startsWith('text/') || f.content
IsTextFile(f) ==
    \/ (Len(f.mimeType) >= 5 /\ SubSeq(f.mimeType, 1, 5) = "text/")
    \/ f.content # ""

\* index.ts:60, 64  `${file1.fileName}_${file2.fileName}`
PairKey(f1, f2) == f1.fileName \o "_" \o f2.fileName

RECURSIVE BuildFileHashes(_, _)
\* index.ts:35-46  the Map fileHashes after the first n files, as the sequence
\* of its entries in insertion order; an entry's files are array positions.
BuildFileHashes(fs, n) ==
    IF n = 0 THEN << >>
    ELSE LET prev == BuildFileHashes(fs, n - 1)
             h    == FileHash(fs[n])
         IN  IF \E e \in 1..Len(prev) : prev[e].hash = h
             THEN [e \in 1..Len(prev) |->
                     IF prev[e].hash = h
                     THEN [prev[e] EXCEPT !.files = Append(@, n)]
                     ELSE prev[e]]
             ELSE Append(prev, [hash |-> h, files |-> <<n>>])

RECURSIVE FilterText(_, _)
\* index.ts:52  files.filter(...), as the positions kept, in array order.
FilterText(fs, n) ==
    IF n = 0 THEN << >>
    ELSE IF IsTextFile(fs[n])
         THEN Append(FilterText(fs, n - 1), n)
         ELSE FilterText(fs, n - 1)

RECURSIVE SumSeq(_)
SumSeq(s) == IF s = << >> THEN 0 ELSE Head(s) + SumSeq(Tail(s))

RECURSIVE MaxSeq(_)
\* Math.max(...s) of a non-empty s.
MaxSeq(s) ==
    IF Len(s) = 1 THEN s[1]
    ELSE LET m == MaxSeq(Tail(s)) IN IF s[1] >= m THEN s[1] ELSE m

\* --------------------------------------------------------------- variables

VARIABLES
    method,               \* req.method
    files,                \* the request's files array
    similarityThreshold,  \* the request's threshold, in hundredths
    includeSimilar,       \* the request's includeSimilar
    configOk,             \* SUPABASE_URL and SUPABASE_SERVICE_ROLE_KEY are set
    pc,                   \* where the handler is
    fileHashes,           \* Map hash -> files, as entries in insertion order
    processedFiles,       \* Set of pair keys
    duplicateGroups,      \* the array duplicateGroups
    i, j,                 \* the pair loop's indices into textFiles (1-based)
    calls,                \* every collaborator call issued, with its answer
    formattedGroups,      \* the array formattedGroups built so far
    totalDuplicateFiles,
    totalPotentialSavings,\* in hundredths of a MB
    summary,              \* result.scan_summary
    userId,               \* "" stands for null
    storeRequests,        \* POSTs to /rest/v1/ai_analysis_results
    response,             \* the Response returned: status and kind
    scan,                 \* which request is served: 1, or 2 for its repetition
    earlier,              \* what the first request asked and returned
    history,              \* the router's history stack; its top is the location
    user,                 \* useAuth().user is an object
    loading,              \* useAuth().loading
    rendered,             \* what ProtectedRoute returned for this location
    page,                 \* the page the route's element has mounted, if any
    navigated,            \* the latest <Navigate>: its props
    chain,                \* the locations rendered since the last visit or
                          \* change of authentication, the first one first
    innerWidth,           \* window.innerWidth
    nav,                  \* the state of each useMobileNavigation() instance
    onClose,              \* the Sidebar was given an onClose prop
    clicked,              \* the latest click on a Sidebar link
    duration,             \* NavigationProgress: its duration prop, in ms
    isVisible,            \* NavigationProgress: the bar is rendered
    progress,             \* NavigationProgress: its progress, 0..100
    timers,               \* timer1..timer3 of the latest effect: the time left
    hideTimers,           \* the hide timers pending: the time each has left
    hasFiles,             \* DuplicateDetector: its files prop is not empty
    onDetectionComplete,  \* its callback prop: "none", "returns", "throws"
    isScanning,           \* DuplicateDetector's state
    results,              \* 0 for null, n for the result of the n-th scan
    error,                \* "" for null
    started,              \* detectDuplicates calls made so far
    pending,              \* detectDuplicates calls not yet settled
    statusMethod,         \* ai-provider-status: req.method
    dbConfigured,         \* SUPABASE_URL and SUPABASE_SERVICE_ROLE_KEY are set
    statusPc,             \* where the status handler is
    services,             \* status.services, as << name, status >> entries
    overallStatus,        \* status.overall_status
    httpStatus            \* the status of the Response, 0 before it

vars == << method, files, similarityThreshold, includeSimilar, configOk, pc,
           fileHashes, processedFiles, duplicateGroups, i, j, calls,
           formattedGroups, totalDuplicateFiles, totalPotentialSavings,
           summary, userId, storeRequests, response, scan, earlier,
           history, user, loading, rendered, page, navigated, chain,
           innerWidth, nav, onClose, clicked,
           duration, isVisible, progress, timers, hideTimers,
           hasFiles, onDetectionComplete, isScanning, results, error, started,
           pending,
           statusMethod, dbConfigured, statusPc, services, overallStatus,
           httpStatus >>

\* The request's inputs and the deployment never change during a request.
inputs == << method, files, similarityThreshold, includeSimilar, configOk >>

\* The variables of a repeated request.
rescan == << scan, earlier >>

\* The variables of the client's router.
router == << history, user, loading, rendered, page, navigated, chain >>

\* The variables of the layout: TopBar, Sidebar and MainLayout.
layout == << innerWidth, nav, onClose, clicked >>

\* The variables of NavigationProgress.
progressBar == << duration, isVisible, progress, timers, hideTimers >>

\* The variables of the DuplicateDetector component.
detector == << hasFiles, onDetectionComplete, isScanning, results, error,
               started, pending >>

\* The variables of the ai-provider-status function.
providerStatus == << statusMethod, dbConfigured, statusPc, services,
                     overallStatus, httpStatus >>

\* The variables of the client's other components and of the status function.
components == << layout, progressBar, detector, providerStatus >>

NoSummary ==
    [total_files_scanned |-> 0, duplicate_groups_found |-> 0,
     total_duplicate_files |-> 0, similarity_threshold |-> 0,
     total_potential_savings_mb |-> 0]

NoResponse == [status |-> 0, kind |-> "none", message |-> ""]

\* No request was served before this one.
NoEarlier ==
    [calls |-> << >>, groups |-> << >>, summary |-> NoSummary,
     response |-> NoResponse]

\* No <Navigate> was rendered yet.
NoNavigate == [to |-> "", state |-> "", replace |-> FALSE]

\* useMobileNavigation.ts:18  the lg breakpoint.
MobileBreakpoint == 1024

\* The components that call useMobileNavigation(): MainLayout
\* (FileHistory.tsx:424-429), TopBar (part_008:17), Sidebar
\* (AIAnalysis.tsx:322).  Each call has a state of its own.
Instances == { "MainLayout", "TopBar", "Sidebar" }

\* useMobileNavigation.ts:17-27  checkMobile(): what it sets.
CheckMobile(width) ==
    [isMobile |-> width < MobileBreakpoint,
     sidebarOpen |-> ~(width < MobileBreakpoint)]

\* No Sidebar link was clicked yet.
NoClick == [to |-> "", onCloseCalled |-> FALSE, failed |-> FALSE,
            odd |-> FALSE]

\* The layout on a desktop window, its Sidebar without an onClose.
LayoutIdle ==
    /\ innerWidth = MobileBreakpoint
    /\ nav = [c \in Instances |-> CheckMobile(MobileBreakpoint)]
    /\ onClose = FALSE
    /\ clicked = NoClick

\* NavigationProgress.tsx:28-30  the timers of the effect.
TimerNames == { "timer1", "timer2", "timer3" }

\* No timer of that name is pending.
NoTimer == 0 - 1

\* NavigationProgress.tsx:16  the duration prop's default, in ms.
Duration == 300

\* NavigationProgress.tsx:18-19  NavigationProgress is not mounted.
ProgressIdle ==
    /\ duration = Duration
    /\ isVisible = FALSE
    /\ progress = 0
    /\ timers = [t \in TimerNames |-> NoTimer]
    /\ hideTimers = {}

\* DuplicateDetector.tsx:18-20  a DuplicateDetector without files, not used.
DetectorIdle ==
    /\ hasFiles = FALSE
    /\ onDetectionComplete = "none"
    /\ isScanning = FALSE
    /\ results = 0
    /\ error = ""
    /\ started = 0
    /\ pending = 0

\* No request to ai-provider-status is under way.
StatusIdle ==
    /\ statusMethod = "GET"
    /\ dbConfigured = TRUE
    /\ statusPc = "start"
    /\ services = << >>
    /\ overallStatus = "unknown"
    /\ httpStatus = 0

ComponentsIdle == LayoutIdle /\ ProgressIdle /\ DetectorIdle /\ StatusIdle

\* A history entry: pathname, search ("" or "?..."), and state.from ("" stands
\* for a null state).
Location(pathname, search, from) ==
    [pathname |-> pathname, search |-> search, state |-> from]

\* index.ts:52  textFiles, as positions of the files array
textFiles == FilterText(files, Len(files))

Init ==
    /\ method \in Methods
    /\ files \in FileLists
    /\ similarityThreshold \in Thresholds
    /\ includeSimilar \in BOOLEAN
    /\ configOk \in BOOLEAN
    /\ pc = "start"
    /\ fileHashes = << >>
    /\ processedFiles = {}
    /\ duplicateGroups = << >>
    /\ i = 0
    /\ j = 0
    /\ calls = << >>
    /\ formattedGroups = << >>
    /\ totalDuplicateFiles = 0
    /\ totalPotentialSavings = 0
    /\ summary = NoSummary
    /\ userId = ""
    /\ storeRequests = 0
    /\ response = NoResponse
    /\ scan = 1
    /\ earlier = NoEarlier
    /\ history = << Location("/", "", "") >>
    /\ user = FALSE
    /\ loading = TRUE
    /\ rendered = "none"
    /\ page = ""
    /\ navigated = NoNavigate
    /\ chain = << Location("/", "", "") >>
    /\ ComponentsIdle

\* No request to the edge function is under way.
ServerIdle ==
    /\ method = "POST"
    /\ files = << >>
    /\ similarityThreshold = ExactScore
    /\ includeSimilar = FALSE
    /\ configOk = TRUE
    /\ pc = "start"
    /\ fileHashes = << >>
    /\ processedFiles = {}
    /\ duplicateGroups = << >>
    /\ i = 0
    /\ j = 0
    /\ calls = << >>
    /\ formattedGroups = << >>
    /\ totalDuplicateFiles = 0
    /\ totalPotentialSavings = 0
    /\ summary = NoSummary
    /\ userId = ""
    /\ storeRequests = 0
    /\ response = NoResponse
    /\ scan = 1
    /\ earlier = NoEarlier

\* The router before anything is rendered at "/".
RouterIdle ==
    /\ history = << Location("/", "", "") >>
    /\ user = FALSE
    /\ loading = TRUE
    /\ rendered = "none"
    /\ page = ""
    /\ navigated = NoNavigate
    /\ chain = << Location("/", "", "") >>

\* ------------------------------------------------ request entry, validation

\* index.ts:10-12  a CORS preflight is answered without reading the body.
Preflight ==
    /\ pc = "start"
    /\ method = "OPTIONS"
    /\ pc' = "done"
    /\ response' = [status |-> 200, kind |-> "preflight", message |-> ""]
    /\ UNCHANGED << inputs, rescan, router, components,
                    fileHashes, processedFiles, duplicateGroups, i, j,
                    calls, formattedGroups, totalDuplicateFiles,
                    totalPotentialSavings, summary, userId, storeRequests >>

\* index.ts:275-287  the outer catch: a 500 response carrying error.message.
ErrorResponse(msg) ==
    [status |-> 500, kind |-> "error", message |-> msg]

\* A variant of RejectEmptyFiles: the empty array passes the validation and
\* the handler goes on to its grouping.
AcceptEmptyFiles ==
    /\ pc = "start"
    /\ method # "OPTIONS"
    /\ Len(files) = 0
    /\ pc' = "exact"
    /\ UNCHANGED << inputs, rescan, router, components,
                    fileHashes, processedFiles, duplicateGroups, i, j,
                    calls, formattedGroups, totalDuplicateFiles,
                    totalPotentialSavings, summary, userId, storeRequests,
                    response >>

\* index.ts:17-19  files.length === 0 throws; the outer catch answers 500.
RejectEmptyFiles ==
    /\ pc = "start"
    /\ method # "OPTIONS"
    /\ Len(files) = 0
    /\ pc' = "done"
    /\ response' = ErrorResponse("Files array is required")
    /\ UNCHANGED << inputs, rescan, router, components,
                    fileHashes, processedFiles, duplicateGroups, i, j,
                    calls, formattedGroups, totalDuplicateFiles,
                    totalPotentialSavings, summary, userId, storeRequests >>

\* index.ts:26-28  missing Supabase configuration throws; the catch answers 500.
RejectMissingConfig ==
    /\ pc = "start"
    /\ method # "OPTIONS"
    /\ Len(files) # 0
    /\ ~configOk
    /\ pc' = "done"
    /\ response' = ErrorResponse("Supabase configuration missing")
    /\ UNCHANGED << inputs, rescan, router, components,
                    fileHashes, processedFiles, duplicateGroups, i, j,
                    calls, formattedGroups, totalDuplicateFiles,
                    totalPotentialSavings, summary, userId, storeRequests >>

\* A variant of SimilarityPassEnabled: the guard forgets includeSimilar.
SimilarityPassAlways == TRUE

\* index.ts:49  openRouterKey && includeSimilar.  openRouterKey is the
\* environment's key or the literal fallback of index.ts:22: always truthy.
SimilarityPassEnabled == includeSimilar

\* index.ts:55-56  whether the pair loop has a first iteration.
HasPairs == Len(textFiles) >= 2

\* index.ts:30-49  the first pass over files, then the second pass's guard.
FirstPass ==
    /\ pc = "start"
    /\ method # "OPTIONS"
    /\ Len(files) # 0
    /\ configOk
    /\ fileHashes' = BuildFileHashes(files, Len(files))
    /\ IF SimilarityPassEnabled /\ HasPairs
       THEN pc' = "pairs" /\ i' = 1 /\ j' = 2
       ELSE pc' = "exact" /\ UNCHANGED << i, j >>
    /\ UNCHANGED << inputs, rescan, router, components,
                    processedFiles, duplicateGroups, calls,
                    formattedGroups, totalDuplicateFiles,
                    totalPotentialSavings, summary, userId, storeRequests,
                    response >>

\* ------------------------------------------- second pass: content similarity

\* The files of the pair the loop is at (index.ts:57-58), as array positions.
pos1 == textFiles[i]
pos2 == textFiles[j]

\* index.ts:67-69  the pair's two hashes are the same.
SameHash == FileHash(files[pos1]) = FileHash(files[pos2])

\* index.ts:60  the pair's key is already in processedFiles.
AlreadyProcessed == PairKey(files[pos1], files[pos2]) \in processedFiles

\* index.ts:55-56  the loop's step: j++, else i++ and j = i + 1, else the loop
\* (and with it the second pass) ends and the handler goes on at index.ts:146.
NextPair ==
    IF j < Len(textFiles)
    THEN pc' = "pairs" /\ i' = i /\ j' = j + 1
    ELSE IF i + 1 <= Len(textFiles) - 1
         THEN pc' = "pairs" /\ i' = i + 1 /\ j' = i + 2
         ELSE pc' = "exact" /\ UNCHANGED << i, j >>

\* index.ts:111  similarity.similarity_score >= similarityThreshold
MeetsThreshold(score, threshold) == score >= threshold

\* index.ts:113-114  duplicateGroups.find(...): the index of the first group
\* holding a file named as file1 or as file2, 0 when there is none.
FindExistingGroup(groups, fs, p1, p2) ==
    LET hit == { e \in 1..Len(groups) :
                   \E m \in 1..Len(groups[e].files) :
                      \/ fs[groups[e].files[m]].fileName = fs[p1].fileName
                      \/ fs[groups[e].files[m]].fileName = fs[p2].fileName }
    IN  IF hit = {} THEN 0 ELSE CHOOSE e \in hit : \A o \in hit : e <= o

\* index.ts:117, 120  existingGroup.files.some(f => f.fileName === file.fileName)
HasFileNamed(members, fs, p) ==
    \E m \in 1..Len(members) : fs[members[m]].fileName = fs[p].fileName

\* index.ts:116-123  the existing group, extended by the pair.
ExtendGroup(group, fs, p1, p2, score) ==
    LET with1 == IF HasFileNamed(group.files, fs, p1)
                 THEN group.files ELSE Append(group.files, p1)
        with2 == IF HasFileNamed(with1, fs, p2)
                 THEN with1 ELSE Append(with1, p2)
    IN  [group EXCEPT !.files = with2,
                      !.similarity_details = Append(@, score)]

\* A variant of NewSimilarityGroup: the pair is listed second file first.
NewSimilarityGroupSwapped(p1, p2, score) ==
    [files |-> <<p2, p1>>,
     similarity_details |-> <<score>>,
     detection_method |-> "ai_content_similarity"]

\* index.ts:125-129  a new similarity group of the pair.
NewSimilarityGroup(p1, p2, score) ==
    [files |-> <<p1, p2>>,
     similarity_details |-> <<score>>,
     detection_method |-> "ai_content_similarity"]

\* index.ts:111-131  duplicateGroups after a parsed answer for the pair.
MergePair(groups, fs, p1, p2, score, threshold) ==
    IF ~MeetsThreshold(score, threshold) THEN groups
    ELSE LET e == FindExistingGroup(groups, fs, p1, p2)
         IN  IF e # 0
             THEN [groups EXCEPT ![e] = ExtendGroup(@, fs, p1, p2, score)]
             ELSE Append(groups, NewSimilarityGroup(p1, p2, score))

\* An entry of calls: the pair asked about and the answer.  outcome is
\* "scored" for a reply that parsed to a similarity_score and "failed" for a
\* call that gave none (score is then 0 and means nothing).
Call(p1, p2, outcome, score) ==
    [f1 |-> p1, f2 |-> p2, outcome |-> outcome, score |-> score]

\* index.ts:74, 77  content?.substring(0, 2000) || 'No content'
ExcerptLength == 2000

Excerpt(f) ==
    IF f.content = "" THEN "No content"
    ELSE IF Len(f.content) <= ExcerptLength THEN f.content
    ELSE SubSeq(f.content, 1, ExcerptLength)

\* index.ts:71-86  what of the pair the prompt carries: the two file names and
\* the two content excerpts, in the pair's order.
SimilarityPrompt(f1, f2) ==
    << f1.fileName, Excerpt(f1), f2.fileName, Excerpt(f2) >>

\* index.ts:88-111  the answers the collaborator can give for a pair, as
\* << outcome, score >>.  The repetition of a request is served by the same
\* collaborator, taken to be deterministic: a prompt the first request sent
\* gets the answer it got then.  A first request's answers are free.
CollaboratorAnswers(p1, p2) ==
    LET asked ==
            { c \in 1..Len(earlier.calls) :
                SimilarityPrompt(files[earlier.calls[c].f1],
                                 files[earlier.calls[c].f2])
                  = SimilarityPrompt(files[p1], files[p2]) }
    IN  IF asked = {}
        THEN {<< "failed", 0 >>} \cup {<< "scored", score >> : score \in Scores}
        ELSE {<< earlier.calls[c].outcome, earlier.calls[c].score >> :
                c \in asked}

\* index.ts:60-62  the pair's key was seen before: continue.
SkipProcessedPair ==
    /\ pc = "pairs"
    /\ AlreadyProcessed
    /\ NextPair
    /\ UNCHANGED << inputs, rescan, router, components,
                    fileHashes, processedFiles, duplicateGroups, calls,
                    formattedGroups, totalDuplicateFiles,
                    totalPotentialSavings, summary, userId, storeRequests,
                    response >>

\* index.ts:64-69  the key is recorded; both files have one hash: continue.
SkipSameHash ==
    /\ pc = "pairs"
    /\ ~AlreadyProcessed
    /\ SameHash
    /\ processedFiles' = processedFiles \cup {PairKey(files[pos1], files[pos2])}
    /\ NextPair
    /\ UNCHANGED << inputs, rescan, router, components,
                    fileHashes, duplicateGroups, calls,
                    formattedGroups, totalDuplicateFiles,
                    totalPotentialSavings, summary, userId, storeRequests,
                    response >>

\* A variant of CollaboratorFails: the failure is not caught per pair and
\* reaches the handler's outer catch.
CollaboratorFailsFatal ==
    /\ pc = "pairs"
    /\ ~AlreadyProcessed
    /\ ~SameHash
    /\ processedFiles' = processedFiles \cup {PairKey(files[pos1], files[pos2])}
    /\ calls' = Append(calls, Call(pos1, pos2, "failed", 0))
    /\ pc' = "done"
    /\ response' = ErrorResponse("fetch failed")
    /\ UNCHANGED << inputs, rescan, router, components,
                    fileHashes, duplicateGroups, i, j, formattedGroups,
                    totalDuplicateFiles, totalPotentialSavings, summary,
                    userId, storeRequests >>

\* A variant of CollaboratorFails: a failed call is issued once more before
\* the loop goes on.
CollaboratorFailsRetried ==
    /\ pc = "pairs"
    /\ ~AlreadyProcessed
    /\ ~SameHash
    /\ processedFiles' = processedFiles \cup {PairKey(files[pos1], files[pos2])}
    /\ calls' = calls \o << Call(pos1, pos2, "failed", 0),
                            Call(pos1, pos2, "failed", 0) >>
    /\ NextPair
    /\ UNCHANGED << inputs, rescan, router, components,
                    fileHashes, duplicateGroups, formattedGroups,
                    totalDuplicateFiles, totalPotentialSavings, summary,
                    userId, storeRequests, response >>

\* index.ts:88-138  a collaborator call that yields no score.  fetch rejects
\* and is caught as aiError (89-103, 136-138), or response.ok is false (105,
\* 135), or the reply's content is no JSON or carries no similarity_score
\* (106-111, 132-134; undefined >= threshold is false): each way leaves
\* duplicateGroups alone and the loop goes on.
CollaboratorFails ==
    /\ pc = "pairs"
    /\ ~AlreadyProcessed
    /\ ~SameHash
    /\ << "failed", 0 >> \in CollaboratorAnswers(pos1, pos2)
    /\ processedFiles' = processedFiles \cup {PairKey(files[pos1], files[pos2])}
    /\ calls' = Append(calls, Call(pos1, pos2, "failed", 0))
    /\ NextPair
    /\ UNCHANGED << inputs, rescan, router, components,
                    fileHashes, duplicateGroups, formattedGroups,
                    totalDuplicateFiles, totalPotentialSavings, summary,
                    userId, storeRequests, response >>

\* index.ts:105-131  the reply parses to a similarity_score.
SimilarityAnswered ==
    /\ pc = "pairs"
    /\ ~AlreadyProcessed
    /\ ~SameHash
    /\ processedFiles' = processedFiles \cup {PairKey(files[pos1], files[pos2])}
    /\ \E score \in Scores :
          /\ << "scored", score >> \in CollaboratorAnswers(pos1, pos2)
          /\ calls' = Append(calls, Call(pos1, pos2, "scored", score))
          /\ duplicateGroups' = MergePair(duplicateGroups, files, pos1, pos2,
                                          score, similarityThreshold)
    /\ NextPair
    /\ UNCHANGED << inputs, rescan, router, components,
                    fileHashes, formattedGroups, totalDuplicateFiles,
                    totalPotentialSavings, summary, userId, storeRequests,
                    response >>

\* ------------------------------------------------------ exact duplicate groups

\* A variant of IsDuplicateEntry: an entry of one file counts as a group.
IsDuplicateEntryOfOne(entry) == Len(entry.files) > 0

\* index.ts:148  fileGroup.length > 1
IsDuplicateEntry(entry) == Len(entry.files) > 1

\* index.ts:149-157  the group pushed for an entry of fileHashes.
ExactGroup(entry) ==
    [files |-> entry.files,
     similarity_details |-> <<ExactScore>>,
     detection_method |-> "exact_hash_match"]

RECURSIVE ExactGroups(_, _)
\* index.ts:147-159  the groups pushed for the first n entries of fileHashes.
ExactGroups(entries, n) ==
    IF n = 0 THEN << >>
    ELSE IF IsDuplicateEntry(entries[n])
         THEN Append(ExactGroups(entries, n - 1), ExactGroup(entries[n]))
         ELSE ExactGroups(entries, n - 1)

\* index.ts:146-159
AddExactGroups ==
    /\ pc = "exact"
    /\ duplicateGroups' =
          duplicateGroups \o ExactGroups(fileHashes, Len(fileHashes))
    /\ pc' = "format"
    /\ UNCHANGED << inputs, rescan, router, components,
                    fileHashes, processedFiles, i, j, calls,
                    formattedGroups, totalDuplicateFiles,
                    totalPotentialSavings, summary, userId, storeRequests,
                    response >>

\* ------------------------------------------------- statistics and the result

\* index.ts:176, 180  parseFloat(((size || 0) / (1024 * 1024)).toFixed(2)), in
\* hundredths of a MB.  size / 2^20 is exact in a double, and toFixed rounds
\* its exact value to the nearest hundredth, a tie to the larger one.
SizeMb(size) == (200 * size + BytesPerMB) \div (2 * BytesPerMB)

\* index.ts:177-183  the file information pushed for a group member (path, a
\* copy of filePath, is left out).
FormatFile(f) ==
    [name      |-> f.fileName,
     size_mb   |-> SizeMb(f.size),
     mime_type |-> IF f.mimeType = "" THEN "unknown" ELSE f.mimeType,
     hash      |-> IF f.hash = "" THEN "calculated" ELSE f.hash]

\* index.ts:175-185  groupInfo.files after the forEach.
FormatFiles(group, fs) ==
    [m \in 1..Len(group.files) |-> FormatFile(fs[group.files[m]])]

\* index.ts:184  groupInfo.total_size_mb after the forEach, times 2^20: the sum
\* of the sizes in bytes (every partial sum is exact in a double).
TotalSizeBytes(group, fs) ==
    SumSeq([m \in 1..Len(group.files) |-> fs[group.files[m]].size])

\* index.ts:189  Math.max(...groupInfo.files.map(f => f.size_mb))
LargestFileSize(infos) == MaxSeq([m \in 1..Len(infos) |-> infos[m].size_mb])

\* index.ts:190  parseFloat((total_size_mb - largestFileSize).toFixed(2)), in
\* hundredths, as the set of values double arithmetic can give.  The exact
\* difference is d / 2^20 hundredths; toFixed rounds to the nearest hundredth,
\* the sign apart.  Off a tie the double's error is far too small to matter.
\* On a tie: when largest/100 is a double (largest a multiple of 25) the
\* subtraction is exact and toFixed takes the hundredth larger in magnitude;
\* otherwise the double nearest to largest/100 lies off it and which of the
\* two neighbouring hundredths results depends on the operands' rounding
\* errors, which this model does not compute: both are outcomes.
RoundedDifference(totalBytes, largest) ==
    LET d     == 100 * totalBytes - largest * BytesPerMB
        mag   == IF d < 0 THEN 0 - d ELSE d
        sign  == IF d < 0 THEN 0 - 1 ELSE 1
        down  == mag \div BytesPerMB
        tie   == 2 * (mag % BytesPerMB) = BytesPerMB
        near  == (2 * mag + BytesPerMB) \div (2 * BytesPerMB)
    IN  IF tie /\ largest % 25 # 0
        THEN {sign * down, sign * (down + 1)}
        ELSE {sign * near}

\* index.ts:188-193  potential_savings_mb of a group: the values it can take.
PotentialSavings(group, fs) ==
    IF Len(group.files) > 1
    THEN RoundedDifference(TotalSizeBytes(group, fs),
                           LargestFileSize(FormatFiles(group, fs)))
    ELSE {0}

\* index.ts:188-190  the arithmetic is a function of its operands: where the
\* first request formatted a group of the same total and the same largest
\* size_mb, its repetition gets the same potential_savings_mb.
SameArithmetic(group, fs, savings) ==
    \A k \in 1..Len(earlier.groups) :
        LET g == earlier.groups[k]
        IN  ( /\ Len(g.files) > 1
              /\ Len(group.files) > 1
              /\ g.total_size_bytes = TotalSizeBytes(group, fs)
              /\ LargestFileSize(g.files)
                    = LargestFileSize(FormatFiles(group, fs)) )
                => savings = g.potential_savings_mb

\* A variant of DuplicateFilesOf: every member is counted, the kept one too.
DuplicateFilesOfAll(group) ==
    IF Len(group.files) > 1 THEN Len(group.files) ELSE 0

\* index.ts:191  what a group adds to totalDuplicateFiles.
DuplicateFilesOf(group) ==
    IF Len(group.files) > 1 THEN Len(group.files) - 1 ELSE 0

\* A variant of ReportedScore: the score keeps its initial 0 (index.ts:170).
ReportedScoreUnset(group) == 0

\* index.ts:196-199  groupInfo.similarity_score
ReportedScore(group) ==
    IF Len(group.similarity_details) > 0
    THEN group.similarity_details[1]
    ELSE 0

\* index.ts:166-201  the groupInfo returned by the map callback.
GroupInfo(group, fs, savings) ==
    [files |-> FormatFiles(group, fs),
     total_size_bytes |-> TotalSizeBytes(group, fs),
     potential_savings_mb |-> savings,
     similarity_score |-> ReportedScore(group),
     similarity_details |-> group.similarity_details,
     detection_method |-> group.detection_method]

\* index.ts:165-202  one call of the map callback, on the next group.
FormatGroup ==
    /\ pc = "format"
    /\ Len(formattedGroups) < Len(duplicateGroups)
    /\ LET group == duplicateGroups[Len(formattedGroups) + 1]
       IN  \E savings \in PotentialSavings(group, files) :
              /\ SameArithmetic(group, files, savings)
              /\ formattedGroups' =
                    Append(formattedGroups, GroupInfo(group, files, savings))
              /\ totalDuplicateFiles' =
                    totalDuplicateFiles + DuplicateFilesOf(group)
              /\ totalPotentialSavings' = totalPotentialSavings + savings
    /\ UNCHANGED << inputs, rescan, router, components,
                    pc, fileHashes, processedFiles, duplicateGroups,
                    i, j, calls, summary, userId, storeRequests, response >>

\* index.ts:206-214  result.scan_summary.  totalPotentialSavings is a sum of
\* hundredths: toFixed(2) gives it back (index.ts:211).
ScanSummary ==
    [total_files_scanned |-> Len(files),
     duplicate_groups_found |-> Len(duplicateGroups),
     total_duplicate_files |-> totalDuplicateFiles,
     similarity_threshold |-> similarityThreshold,
     total_potential_savings_mb |-> totalPotentialSavings]

\* index.ts:204-216  the map is over: result is built.
BuildResult ==
    /\ pc = "format"
    /\ Len(formattedGroups) = Len(duplicateGroups)
    /\ summary' = ScanSummary
    /\ pc' = "auth"
    /\ UNCHANGED << inputs, rescan, router, components,
                    fileHashes, processedFiles, duplicateGroups, i, j,
                    calls, formattedGroups, totalDuplicateFiles,
                    totalPotentialSavings, userId, storeRequests, response >>

\* ------------------------------------------- the caller, the store, the reply

\* index.ts:271-273  the 200 response carrying { data: result }.
ResultResponse == [status |-> 200, kind |-> "result", message |-> ""]

\* A variant of RespondAnonymous: the result is stored without a user.
RespondAnonymousStores ==
    /\ pc = "auth"
    /\ storeRequests' = storeRequests + 1
    /\ response' = ResultResponse
    /\ pc' = "done"
    /\ UNCHANGED << inputs, rescan, router, components,
                    fileHashes, processedFiles, duplicateGroups, i, j,
                    calls, formattedGroups, totalDuplicateFiles,
                    totalPotentialSavings, summary, userId >>

\* index.ts:219-237, 240, 271  userId stays null (no authorization header, or
\* the user lookup threw or was not ok): nothing is stored, result is returned.
RespondAnonymous ==
    /\ pc = "auth"
    /\ response' = ResultResponse
    /\ pc' = "done"
    /\ UNCHANGED << inputs, rescan, router, components,
                    fileHashes, processedFiles, duplicateGroups, i, j,
                    calls, formattedGroups, totalDuplicateFiles,
                    totalPotentialSavings, summary, userId, storeRequests >>

\* index.ts:221-233  the token of the authorization header names a user.
UserResolved ==
    /\ pc = "auth"
    /\ userId' = "user"
    /\ pc' = "store"
    /\ UNCHANGED << inputs, rescan, router, components,
                    fileHashes, processedFiles, duplicateGroups, i, j,
                    calls, formattedGroups, totalDuplicateFiles,
                    totalPotentialSavings, summary, storeRequests, response >>

\* A variant of StoreResult: a rejected store request is not caught and
\* reaches the handler's outer catch.
StoreResultUncaught ==
    /\ pc = "store"
    /\ storeRequests' = storeRequests + 1
    /\ \E rejected \in BOOLEAN :
          response' = IF rejected THEN ErrorResponse("fetch failed")
                                  ELSE ResultResponse
    /\ pc' = "done"
    /\ UNCHANGED << inputs, rescan, router, components,
                    fileHashes, processedFiles, duplicateGroups, i, j,
                    calls, formattedGroups, totalDuplicateFiles,
                    totalPotentialSavings, summary, userId >>

\* index.ts:240-273  the result is POSTed to ai_analysis_results (a rejected
\* fetch is caught) and then returned.
StoreResult ==
    /\ pc = "store"
    /\ storeRequests' = storeRequests + 1
    /\ response' = ResultResponse
    /\ pc' = "done"
    /\ UNCHANGED << inputs, rescan, router, components,
                    fileHashes, processedFiles, duplicateGroups, i, j,
                    calls, formattedGroups, totalDuplicateFiles,
                    totalPotentialSavings, summary, userId >>

Next ==
    \/ Preflight \/ RejectEmptyFiles \/ RejectMissingConfig \/ FirstPass
    \/ SkipProcessedPair \/ SkipSameHash
    \/ CollaboratorFails \/ SimilarityAnswered
    \/ AddExactGroups \/ FormatGroup \/ BuildResult
    \/ RespondAnonymous \/ UserResolved \/ StoreResult

Spec == Init /\ [][Next]_vars

\* --------------------------------------------------- the request is repeated

\* A variant of Rescan: the set of processed pair keys outlives the request,
\* as it would were it declared outside the handler.
RescanKeepsProcessed ==
    /\ pc = "done"
    /\ scan = 1
    /\ scan' = 2
    /\ earlier' = [calls |-> calls, groups |-> formattedGroups,
                   summary |-> summary, response |-> response]
    /\ pc' = "start"
    /\ fileHashes' = << >>
    /\ duplicateGroups' = << >>
    /\ i' = 0
    /\ j' = 0
    /\ calls' = << >>
    /\ formattedGroups' = << >>
    /\ totalDuplicateFiles' = 0
    /\ totalPotentialSavings' = 0
    /\ summary' = NoSummary
    /\ userId' = ""
    /\ storeRequests' = 0
    /\ response' = NoResponse
    /\ UNCHANGED << inputs, router, components, processedFiles >>

\* index.ts:1, 15, 30-32, 162-163, 218  the same request arrives once more.
\* Deno.serve runs the handler again: everything the handler works on is
\* declared inside it and starts afresh.  What the first request asked and
\* returned is kept for comparison; calls, userId and storeRequests are those
\* of the request being served.
Rescan ==
    /\ pc = "done"
    /\ scan = 1
    /\ scan' = 2
    /\ earlier' = [calls |-> calls, groups |-> formattedGroups,
                   summary |-> summary, response |-> response]
    /\ pc' = "start"
    /\ fileHashes' = << >>
    /\ processedFiles' = {}
    /\ duplicateGroups' = << >>
    /\ i' = 0
    /\ j' = 0
    /\ calls' = << >>
    /\ formattedGroups' = << >>
    /\ totalDuplicateFiles' = 0
    /\ totalPotentialSavings' = 0
    /\ summary' = NoSummary
    /\ userId' = ""
    /\ storeRequests' = 0
    /\ response' = NoResponse
    /\ UNCHANGED << inputs, router, components >>

NextRescan == Next \/ Rescan

SpecRescan == Init /\ [][NextRescan]_vars

\* ------------------------------------------------------ the client's router

\* How many entries the history stack may hold.
MaxVisits == 2

\* The variables of the edge function's handler.
handler == << pc, fileHashes, processedFiles, duplicateGroups, i, j, calls,
              formattedGroups, totalDuplicateFiles, totalPotentialSavings,
              summary, userId, storeRequests, response >>

\* Pathnames a browser may ask for: the login page, the dashboard, a page, a
\* redirect to "/", a redirect to a redirect, a folder page, a redirect to a
\* folder page, and a path no route names.
Paths ==
    { "/login", "/", "/ai-analysis", "/dashboard", "/insights",
      "/folders/media", "/folder-media", "/no-such-page" }

\* Query strings a browser may ask for.
Searches == { "", "?tab=1" }

\* The element of a route: a lazily loaded page, or a <Navigate replace>.
PageElement(name) == [kind |-> "page", name |-> name, to |-> ""]
NavigateElement(to) == [kind |-> "navigate", name |-> "", to |-> to]

Route(path, element, requireAuth) ==
    [path |-> path, element |-> element, requireAuth |-> requireAuth]

\* part_004:49-174  the route table.
routes ==
    << Route("/login", PageElement("LoginPage"), FALSE),
       Route("/", PageElement("DashboardPage"), TRUE),
       Route("/dashboard", NavigateElement("/"), TRUE),
       Route("/ai-analysis", PageElement("AIAnalysisPage"), TRUE),
       Route("/smart-organizer", PageElement("SmartOrganizerPage"), TRUE),
       Route("/duplicate-detector", PageElement("DuplicateDetectorPage"), TRUE),
       Route("/smart-tagger", PageElement("SmartTaggerPage"), TRUE),
       Route("/folders/:folderType", PageElement("FolderPage"), TRUE),
       Route("/insights", NavigateElement("/dashboard"), TRUE),
       Route("/history", NavigateElement("/dashboard"), TRUE),
       Route("/activity", NavigateElement("/dashboard"), TRUE),
       Route("/ai-dashboard", NavigateElement("/"), TRUE),
       Route("/folder-documents", NavigateElement("/folders/documents"), TRUE),
       Route("/folder-media", NavigateElement("/folders/media"), TRUE),
       Route("/folder-projects", NavigateElement("/folders/projects"), TRUE),
       Route("/folder-archive", NavigateElement("/folders/archive"), TRUE),
       Route("*", PageElement("NotFoundPage"), FALSE) >>

\* part_004:107  the static prefix of the route with a dynamic segment.
FoldersPrefix == "/folders/"

\* part_004:107  a pathname of the shape /folders/:folderType : the prefix and
\* one segment that is not empty.
IsFolderPath(pathname) ==
    /\ Len(pathname) > Len(FoldersPrefix)
    /\ SubSeq(pathname, 1, Len(FoldersPrefix)) = FoldersPrefix
    /\ \A k \in (Len(FoldersPrefix) + 1)..Len(pathname) :
          SubSeq(pathname, k, k) # "/"

\* part_004:206-225  <Routes>: whether a route's path matches a pathname.
MatchesRoute(path, pathname) ==
    \/ path = "*"
    \/ path = "/folders/:folderType" /\ IsFolderPath(pathname)
    \/ path = pathname

\* part_004:206-225  <Routes> ranks the matches: a static path before one with
\* a dynamic segment, and the splat last.
RouteRank(path) ==
    IF path = "*" THEN 0
    ELSE IF path = "/folders/:folderType" THEN 1
    ELSE 2

\* part_004:206-225  the route <Routes> renders for a pathname.
MatchedRoute(pathname) ==
    LET matches == { r \in 1..Len(routes) :
                       MatchesRoute(routes[r].path, pathname) }
    IN  routes[CHOOSE r \in matches :
                 \A q \in matches :
                    \/ RouteRank(routes[q].path) < RouteRank(routes[r].path)
                    \/ (/\ RouteRank(routes[q].path) = RouteRank(routes[r].path)
                        /\ r <= q)]

\* part_005:66-67  <Navigate to={from}>: the router parses a string into a
\* pathname and a search, the search starting at the first "?".
QueryStart(to) ==
    IF \E k \in 1..Len(to) : SubSeq(to, k, k) = "?"
    THEN CHOOSE k \in 1..Len(to) :
            /\ SubSeq(to, k, k) = "?"
            /\ \A m \in 1..(k - 1) : SubSeq(to, m, m) # "?"
    ELSE 0

ParsePath(to) ==
    IF QueryStart(to) = 0
    THEN [pathname |-> to, search |-> ""]
    ELSE [pathname |-> SubSeq(to, 1, QueryStart(to) - 1),
          search   |-> SubSeq(to, QueryStart(to), Len(to))]

\* part_005:16  useLocation(): the top of the history stack.
location == history[Len(history)]

\* part_004:195, 213-219  the route whose RouteWrapper is rendered.
currentRoute == MatchedRoute(location.pathname)

\* part_005:57  location.pathname + location.search
RequestedPath == location.pathname \o location.search

\* The application's state when the page is opened at an URL: no request to
\* the edge function is under way.
RouterInit ==
    /\ ServerIdle
    /\ ComponentsIdle
    /\ \E pathname \in Paths, search \in Searches :
          history = << Location(pathname, search, "") >>
    /\ user \in BOOLEAN
    /\ loading \in BOOLEAN
    /\ rendered = "none"
    /\ page = ""
    /\ navigated = NoNavigate
    /\ chain = history

\* A chain of locations that came back to one it had held.
Looped(locations) ==
    \E m, n \in 1..Len(locations) : m < n /\ locations[m] = locations[n]

\* A variant of Navigate: the state prop is not carried to the new location.
NavigateDropsState(to, state) ==
    /\ history' = [history EXCEPT ![Len(history)] =
                      Location(ParsePath(to).pathname, ParsePath(to).search,
                               "")]
    /\ navigated' = [to |-> to, state |-> state, replace |-> TRUE]
    /\ rendered' = "none"
    /\ page' = ""
    /\ chain' = IF Looped(chain) THEN chain
                ELSE Append(chain, Location(ParsePath(to).pathname,
                                            ParsePath(to).search, ""))

\* part_005:55-59, 67; part_004:69  <Navigate to state replace>: the top of
\* the history stack is replaced by the target and the new location is
\* rendered anew.  A <Navigate> without a state prop leaves a null state.
Navigate(to, state) ==
    /\ history' = [history EXCEPT ![Len(history)] =
                      Location(ParsePath(to).pathname, ParsePath(to).search,
                               state)]
    /\ navigated' = [to |-> to, state |-> state, replace |-> TRUE]
    /\ rendered' = "none"
    /\ page' = ""
    /\ chain' = IF Looped(chain) THEN chain
                ELSE Append(chain, Location(ParsePath(to).pathname,
                                            ParsePath(to).search, state))

\* part_004:240-253  the user opens a path: a new entry is pushed.
Visit ==
    /\ Len(history) < MaxVisits
    /\ \E pathname \in Paths, search \in Searches :
          /\ history' = Append(history, Location(pathname, search, ""))
          /\ chain' = << Location(pathname, search, "") >>
    /\ rendered' = "none"
    /\ page' = ""
    /\ UNCHANGED << inputs, rescan, handler, components,
                    user, loading, navigated >>

\* part_005:15  useAuth() gives another user or loading: ProtectedRoute is
\* rendered anew.
AuthChanges ==
    /\ \E u, l \in BOOLEAN :
          /\ << u, l >> # << user, loading >>
          /\ user' = u
          /\ loading' = l
    /\ rendered' = "none"
    /\ page' = ""
    /\ chain' = << location >>
    /\ UNCHANGED << inputs, rescan, handler, components,
                    history, navigated >>

\* A variant of ShowLoading: the loading check comes after the check for a
\* missing user.
ShowLoadingAfterUserCheck ==
    /\ rendered = "none"
    /\ loading
    /\ IF currentRoute.requireAuth /\ ~user
       THEN Navigate("/login", RequestedPath)
       ELSE /\ rendered' = "loading"
            /\ UNCHANGED << history, page, navigated, chain >>
    /\ UNCHANGED << inputs, rescan, handler, components,
                    user, loading >>

\* part_005:19-49  while loading, the loading screen is returned.
ShowLoading ==
    /\ rendered = "none"
    /\ loading
    /\ rendered' = "loading"
    /\ UNCHANGED << inputs, rescan, handler, components,
                    history, user, loading, page,
                    navigated, chain >>

\* A variant of RedirectToLogin: state.from carries the pathname only.
RedirectToLoginPathOnly ==
    /\ rendered = "none"
    /\ ~loading
    /\ currentRoute.requireAuth /\ ~user
    /\ Navigate("/login", location.pathname)
    /\ UNCHANGED << inputs, rescan, handler, components,
                    user, loading >>

\* A variant of RedirectToLogin: a missing user is sent to /login from every
\* route, whatever its requireAuth.
RedirectToLoginAlways ==
    /\ rendered = "none"
    /\ ~loading
    /\ ~user
    /\ Navigate("/login", RequestedPath)
    /\ UNCHANGED << inputs, rescan, handler, components,
                    user, loading >>

\* part_005:52-61  authentication is required and there is no user.
RedirectToLogin ==
    /\ rendered = "none"
    /\ ~loading
    /\ currentRoute.requireAuth /\ ~user
    /\ Navigate("/login", RequestedPath)
    /\ UNCHANGED << inputs, rescan, handler, components,
                    user, loading >>

\* A variant of RedirectAuthenticated: the target is always the dashboard.
RedirectAuthenticatedHome ==
    /\ rendered = "none"
    /\ ~loading
    /\ ~(currentRoute.requireAuth /\ ~user)
    /\ ~currentRoute.requireAuth /\ user
    /\ Navigate("/", "")
    /\ UNCHANGED << inputs, rescan, handler, components,
                    user, loading >>

\* part_005:64-68  authentication is not required and there is a user: to
\* location.state?.from || '/'.
RedirectAuthenticated ==
    /\ rendered = "none"
    /\ ~loading
    /\ ~(currentRoute.requireAuth /\ ~user)
    /\ ~currentRoute.requireAuth /\ user
    /\ Navigate(IF location.state # "" THEN location.state ELSE "/", "")
    /\ UNCHANGED << inputs, rescan, handler, components,
                    user, loading >>

\* part_005:71  the children are returned.
RenderChildren ==
    /\ rendered = "none"
    /\ ~loading
    /\ ~(currentRoute.requireAuth /\ ~user)
    /\ ~(~currentRoute.requireAuth /\ user)
    /\ rendered' = "children"
    /\ UNCHANGED << inputs, rescan, handler, components,
                    history, user, loading, page,
                    navigated, chain >>

\* part_004:37-46, 196  the children are the layout around the route's
\* element; a LazyRoute element mounts its page.
MountPage ==
    /\ rendered = "children"
    /\ page = ""
    /\ currentRoute.element.kind = "page"
    /\ page' = currentRoute.element.name
    /\ UNCHANGED << inputs, rescan, handler, components,
                    history, user, loading, rendered,
                    navigated, chain >>

\* part_004:69, 117, 143  the route's element is a <Navigate replace>.
ElementNavigates ==
    /\ rendered = "children"
    /\ currentRoute.element.kind = "navigate"
    /\ Navigate(currentRoute.element.to, "")
    /\ UNCHANGED << inputs, rescan, handler, components,
                    user, loading >>

RouterNext ==
    \/ Visit \/ AuthChanges
    \/ ShowLoading \/ RedirectToLogin \/ RedirectAuthenticated
    \/ RenderChildren \/ MountPage \/ ElementNavigates

RouterSpec == RouterInit /\ [][RouterNext]_vars

\* ------------------------------------------- the layout and its sidebar state

\* What no event of the layout touches.
besidesLayout == << inputs, rescan, handler, router, progressBar, detector,
                    providerStatus >>

\* Widths of the window: two below the lg breakpoint, and the breakpoint.
Widths == { 768, 1023, 1024 }

\* AIAnalysis.tsx:333-398  the paths of the Sidebar's links.
LinkPaths ==
    { "/", "/ai-analysis", "/smart-organizer", "/duplicate-detector",
      "/smart-tagger", "/folders/documents", "/folders/media",
      "/folders/projects", "/folders/archive" }

\* FileHistory.tsx:421-471  MainLayout is mounted with its TopBar and its
\* Sidebar, or a Sidebar is mounted on its own without an onClose; every
\* useMobileNavigation() has run its first checkMobile().
LayoutInit ==
    /\ ServerIdle
    /\ RouterIdle
    /\ ProgressIdle
    /\ DetectorIdle
    /\ StatusIdle
    /\ innerWidth \in Widths
    /\ nav = [c \in Instances |-> CheckMobile(innerWidth)]
    /\ onClose \in BOOLEAN
    /\ clicked = NoClick

\* useMobileNavigation.ts:17-36  the window is resized: the resize listener of
\* every instance runs checkMobile().
Resize ==
    /\ \E width \in Widths \ {innerWidth} :
          /\ innerWidth' = width
          /\ nav' = [c \in Instances |-> CheckMobile(width)]
    /\ UNCHANGED << besidesLayout, onClose, clicked >>

\* part_008:17, 32-39, useMobileNavigation.ts:62-64  the menu button, shown
\* below the lg breakpoint, is clicked: TopBar's toggleSidebar().
ToggleSidebar ==
    /\ innerWidth < MobileBreakpoint
    /\ nav' = [nav EXCEPT !["TopBar"].sidebarOpen = ~nav["TopBar"].sidebarOpen]
    /\ UNCHANGED << besidesLayout, innerWidth, onClose,
                    clicked >>

\* useMobileNavigation.ts:39-60  a mousedown outside the sidebar and the menu
\* button: every instance that is mobile and open has its listener
\* registered and closes.
ClickOutside ==
    /\ \E c \in Instances : nav[c].isMobile /\ nav[c].sidebarOpen
    /\ nav' = [c \in Instances |->
                 IF nav[c].isMobile /\ nav[c].sidebarOpen
                 THEN [nav[c] EXCEPT !.sidebarOpen = FALSE]
                 ELSE nav[c]]
    /\ UNCHANGED << besidesLayout, innerWidth, onClose,
                    clicked >>

\* FileHistory.tsx:431-441  Escape is pressed: MainLayout's keydown listener
\* runs, and closes MainLayout's sidebar state when it is mobile and open.
PressEscape ==
    /\ nav' = IF nav["MainLayout"].isMobile /\ nav["MainLayout"].sidebarOpen
              THEN [nav EXCEPT !["MainLayout"].sidebarOpen = FALSE]
              ELSE nav
    /\ UNCHANGED << besidesLayout, innerWidth, onClose,
                    clicked >>

\* FileHistory.tsx:469-472  the onClose MainLayout gives its Sidebar:
\* setSidebarOpen(false) of MainLayout's instance.
CallOnClose == [nav EXCEPT !["MainLayout"].sidebarOpen = FALSE]

\* A variant of ClickLink: onClose is called on a mobile device whether or not
\* it was supplied; calling a missing onClose throws.
ClickLinkUnguarded ==
    /\ \E to \in LinkPaths :
          clicked' = [to |-> to,
                      onCloseCalled |-> nav["Sidebar"].isMobile /\ onClose,
                      failed |-> nav["Sidebar"].isMobile /\ ~onClose,
                      odd |-> ~clicked.odd]
    /\ nav' = IF nav["Sidebar"].isMobile /\ onClose THEN CallOnClose ELSE nav
    /\ UNCHANGED << besidesLayout, innerWidth, onClose >>

\* AIAnalysis.tsx:415-420, 435-438  a NavLink of the Sidebar is clicked:
\* handleMobileNavigation() runs and the link navigates.
ClickLink ==
    /\ \E to \in LinkPaths :
          clicked' = [to |-> to,
                      onCloseCalled |-> nav["Sidebar"].isMobile /\ onClose,
                      failed |-> FALSE,
                      odd |-> ~clicked.odd]
    /\ nav' = IF nav["Sidebar"].isMobile /\ onClose THEN CallOnClose ELSE nav
    /\ UNCHANGED << besidesLayout, innerWidth, onClose >>

LayoutNext ==
    \/ Resize \/ ToggleSidebar \/ ClickOutside \/ PressEscape \/ ClickLink

LayoutSpec == LayoutInit /\ [][LayoutNext]_vars

\* ------------------------------------------------------- NavigationProgress

\* What no step of NavigationProgress touches.
besidesProgress == << inputs, rescan, handler, router, layout, detector,
                      providerStatus >>

\* NavigationProgress.tsx:28  the delay of timer1, in ms.
Timer1Delay == 100

\* NavigationProgress.tsx:29  the delay of timer2, in ms.
Timer2Delay == 200

\* The unit of time of the model, in ms: every delay is a multiple of it.
TickMs == Timer1Delay \div 2

\* NavigationProgress.tsx:9  the values of the duration prop: its default,
\* a shorter one and a longer one.
Durations == { Timer1Delay, Duration, 500 }

\* NavigationProgress.tsx:33-36  the delay of the hide timer, in ms.
HideDelay == 200

\* NavigationProgress.tsx:28-37  the delays of timer1, timer2 and timer3.
Delay(d) == [t \in TimerNames |->
               IF t = "timer1" THEN Timer1Delay
               ELSE IF t = "timer2" THEN Timer2Delay ELSE d]

\* NavigationProgress.tsx:18-37  the component is mounted and its effect has
\* run for the first location.
ProgressInit ==
    /\ ServerIdle
    /\ RouterIdle
    /\ LayoutIdle
    /\ DetectorIdle
    /\ StatusIdle
    /\ duration \in Durations
    /\ isVisible = TRUE
    /\ progress = 20
    /\ timers = Delay(duration)
    /\ hideTimers = {}

\* NavigationProgress.tsx:22-44  location.pathname changes: the cleanup of
\* the last effect clears timer1, timer2 and timer3, and the effect runs
\* again.  The hide timer is set inside timer3's callback and is not cleared.
LocationChanges ==
    /\ isVisible' = TRUE
    /\ progress' = 20
    /\ timers' = Delay(duration)
    /\ UNCHANGED << besidesProgress, duration, hideTimers >>

\* Time passes, when no pending timer is due.
Tick ==
    /\ \A t \in TimerNames : timers[t] # 0
    /\ 0 \notin hideTimers
    /\ \E t \in TimerNames : timers[t] # NoTimer \/ hideTimers # {}
    /\ timers' = [t \in TimerNames |->
                    IF timers[t] = NoTimer THEN NoTimer
                    ELSE timers[t] - TickMs]
    /\ hideTimers' = { left - TickMs : left \in hideTimers }
    /\ UNCHANGED << besidesProgress, duration, isVisible, progress >>

\* NavigationProgress.tsx:28
Timer1Fires ==
    /\ timers["timer1"] = 0
    /\ progress' = 60
    /\ timers' = [timers EXCEPT !["timer1"] = NoTimer]
    /\ UNCHANGED << besidesProgress, duration, isVisible, hideTimers >>

\* NavigationProgress.tsx:29
Timer2Fires ==
    /\ timers["timer2"] = 0
    /\ progress' = 90
    /\ timers' = [timers EXCEPT !["timer2"] = NoTimer]
    /\ UNCHANGED << besidesProgress, duration, isVisible, hideTimers >>

\* NavigationProgress.tsx:30-37  timer3: progress is complete, and the hide
\* timer is set.
Timer3Fires ==
    /\ timers["timer3"] = 0
    /\ progress' = 100
    /\ timers' = [timers EXCEPT !["timer3"] = NoTimer]
    /\ hideTimers' = hideTimers \cup {HideDelay}
    /\ UNCHANGED << besidesProgress, duration, isVisible >>

\* NavigationProgress.tsx:33-36  a hide timer fires.
HideTimerFires ==
    /\ 0 \in hideTimers
    /\ isVisible' = FALSE
    /\ progress' = 0
    /\ hideTimers' = hideTimers \ {0}
    /\ UNCHANGED << besidesProgress, duration, timers >>

ProgressNext ==
    \/ LocationChanges \/ Tick
    \/ Timer1Fires \/ Timer2Fires \/ Timer3Fires \/ HideTimerFires

ProgressSpec == ProgressInit /\ [][ProgressNext]_vars

\* -------------------------------------------------------- DuplicateDetector

\* What no step of the DuplicateDetector touches.
besidesDetector == << inputs, rescan, handler, router, layout, progressBar,
                      providerStatus >>

\* The detectDuplicates calls one DuplicateDetector starts.
MaxScans == 3

\* DuplicateDetector.tsx:26
NoFilesMessage == "No files provided for scanning"

\* ai-service.ts:21-23, DuplicateDetector.tsx:41  what the service call
\* rejects with: the error of a response that is not ok, or an error without
\* a message.
Rejections == { "AI service error", "" }

\* DuplicateDetector.tsx:41  error.message || 'Scan failed'
ErrorMessage(message) == IF message = "" THEN "Scan failed" ELSE message

\* What a throwing onDetectionComplete throws.
CallbackMessage == "onDetectionComplete failed"

\* DuplicateDetector.tsx:17-22  a mounted DuplicateDetector, with its props.
DetectorInit ==
    /\ ServerIdle
    /\ RouterIdle
    /\ LayoutIdle
    /\ ProgressIdle
    /\ StatusIdle
    /\ hasFiles \in BOOLEAN
    /\ onDetectionComplete \in { "none", "returns", "throws" }
    /\ isScanning = FALSE
    /\ results = 0
    /\ error = ""
    /\ started = 0
    /\ pending = 0

\* DuplicateDetector.tsx:17  the parent renders the component with another
\* files prop.
FilesChange ==
    /\ hasFiles' = ~hasFiles
    /\ UNCHANGED << besidesDetector, onDetectionComplete, isScanning, results,
                    error, started, pending >>

\* DuplicateDetector.tsx:24-33  handleScan up to its await, with the button
\* enabled whatever isScanning is.
ClickScanAlwaysEnabled ==
    /\ started < MaxScans
    /\ IF ~hasFiles
       THEN /\ error' = NoFilesMessage
            /\ UNCHANGED << isScanning, started, pending >>
       ELSE /\ isScanning' = TRUE
            /\ error' = ""
            /\ started' = started + 1
            /\ pending' = pending + 1
    /\ UNCHANGED << besidesDetector, hasFiles, onDetectionComplete, results >>

\* DuplicateDetector.tsx:180-183, 24-33  a click on the scan button, which
\* is disabled while isScanning: handleScan up to its await.
ClickScan ==
    /\ ~isScanning
    /\ started < MaxScans
    /\ IF ~hasFiles
       THEN /\ error' = NoFilesMessage
            /\ UNCHANGED << isScanning, started, pending >>
       ELSE /\ isScanning' = TRUE
            /\ error' = ""
            /\ started' = started + 1
            /\ pending' = pending + 1
    /\ UNCHANGED << besidesDetector, hasFiles, onDetectionComplete, results >>

\* DuplicateDetector.tsx:34-44  the call resolves: the results are stored and
\* onDetectionComplete, if given, is called inside the try block, so what it
\* throws is caught as a failure of the scan.
CallResolves ==
    /\ pending > 0
    /\ results' = started
    /\ error' = IF onDetectionComplete = "throws"
                THEN ErrorMessage(CallbackMessage) ELSE error
    /\ isScanning' = FALSE
    /\ pending' = pending - 1
    /\ UNCHANGED << besidesDetector, hasFiles, onDetectionComplete, started >>

\* DuplicateDetector.tsx:39-44, ai-service.ts:21-30  the call rejects.
CallRejects ==
    /\ pending > 0
    /\ \E message \in Rejections : error' = ErrorMessage(message)
    /\ isScanning' = FALSE
    /\ pending' = pending - 1
    /\ UNCHANGED << besidesDetector, hasFiles, onDetectionComplete, results,
                    started >>

DetectorNext == FilesChange \/ ClickScan \/ CallResolves \/ CallRejects

DetectorSpec == DetectorInit /\ [][DetectorNext]_vars

\* DuplicateDetector.tsx:104-114  the label of the file at fileIndex (from 0)
\* of a rendered group.
Label(fileIndex) == IF fileIndex = 0 THEN "Keep (Largest)" ELSE "Duplicate"

\* -------------------------------------------------------- ai-provider-status

\* What no step of ai-provider-status touches.
besidesStatus == << inputs, rescan, handler, router, layout, progressBar,
                    detector >>

\* ai-provider-status/index.ts:10  the methods of a request: the handler
\* tells OPTIONS from every other method.
StatusMethods == { "GET", "POST", "OPTIONS" }

\* index.ts:47-77, 102-125, 159-184  what a probe of a service yields: the
\* answer is ok, the answer is not ok, or fetch throws.
ProbeOutcomes == { "healthy", "degraded", "error" }

\* index.ts:50-205  every status a service is given.
ServiceStatuses == ProbeOutcomes \cup { "not_configured", "unavailable" }

\* Array.prototype.includes
Includes(array, x) == \E k \in 1..Len(array) : array[k] = x

\* index.ts:216  Object.values(status.services).map(service => service.status)
StatusesOf(svcs) == [k \in 1..Len(svcs) |-> svcs[k].status]

\* index.ts:218-226 with the first two tests in the other order.
OverallStatusDegradedFirst(serviceStatuses) ==
    IF Includes(serviceStatuses, "degraded") THEN "degraded"
    ELSE IF Includes(serviceStatuses, "error") THEN "error"
    ELSE IF \A k \in 1..Len(serviceStatuses) :
                Includes(<< "healthy", "not_configured" >>, serviceStatuses[k])
         THEN "healthy"
    ELSE "partial"

\* index.ts:218-226
OverallStatus(serviceStatuses) ==
    IF Includes(serviceStatuses, "error") THEN "error"
    ELSE IF Includes(serviceStatuses, "degraded") THEN "degraded"
    ELSE IF \A k \in 1..Len(serviceStatuses) :
                Includes(<< "healthy", "not_configured" >>, serviceStatuses[k])
         THEN "healthy"
    ELSE "partial"

\* index.ts:285-286
HttpStatus(overall) ==
    IF overall = "healthy" THEN 200 ELSE IF overall = "error" THEN 503
    ELSE 206

\* index.ts:49, 103, 161  status.services.<name> = { status, ... }
Service(name, status) == [name |-> name, status |-> status]

\* The status of the service of that name, "" if it has not been checked.
ServiceStatus(name) ==
    IF \E k \in 1..Len(services) : services[k].name = name
    THEN services[CHOOSE k \in 1..Len(services) :
                      services[k].name = name].status
    ELSE ""

\* index.ts:1-28  a request arrives; SUPABASE_URL and
\* SUPABASE_SERVICE_ROLE_KEY are both set or not.  The OpenRouter key falls
\* back to a literal (18), so it is set in every run.
StatusInit ==
    /\ ServerIdle
    /\ RouterIdle
    /\ LayoutIdle
    /\ ProgressIdle
    /\ DetectorIdle
    /\ statusMethod \in StatusMethods
    /\ dbConfigured \in BOOLEAN
    /\ statusPc = "start"
    /\ services = << >>
    /\ overallStatus = "unknown"
    /\ httpStatus = 0

\* index.ts:10-12
StatusPreflight ==
    /\ statusPc = "start"
    /\ statusMethod = "OPTIONS"
    /\ httpStatus' = 200
    /\ statusPc' = "done"
    /\ UNCHANGED << besidesStatus, statusMethod, dbConfigured, services,
                    overallStatus >>

\* index.ts:30-84
CheckOpenRouter ==
    /\ statusPc = "start"
    /\ statusMethod # "OPTIONS"
    /\ \E outcome \in ProbeOutcomes :
           services' = Append(services, Service("openrouter", outcome))
    /\ statusPc' = "supabase_db"
    /\ UNCHANGED << besidesStatus, statusMethod, dbConfigured, overallStatus,
                    httpStatus >>

\* index.ts:86-131
CheckDatabase ==
    /\ statusPc = "supabase_db"
    /\ IF dbConfigured
       THEN \E outcome \in ProbeOutcomes :
                services' = Append(services, Service("supabase_db", outcome))
       ELSE services' =
                Append(services, Service("supabase_db", "not_configured"))
    /\ statusPc' = "ai_processing"
    /\ UNCHANGED << besidesStatus, statusMethod, dbConfigured, overallStatus,
                    httpStatus >>

\* index.ts:133-191
TestProcessing ==
    /\ statusPc = "ai_processing"
    /\ IF ServiceStatus("openrouter") = "healthy"
       THEN \E outcome \in ProbeOutcomes :
                services' =
                    Append(services, Service("ai_processing", outcome))
       ELSE services' =
                Append(services, Service("ai_processing", "unavailable"))
    /\ statusPc' = "edge_functions"
    /\ UNCHANGED << besidesStatus, statusMethod, dbConfigured, overallStatus,
                    httpStatus >>

\* index.ts:193-213
CheckEdgeFunctions ==
    /\ statusPc = "edge_functions"
    /\ services' = Append(services, Service("edge_functions", "healthy"))
    /\ statusPc' = "overall"
    /\ UNCHANGED << besidesStatus, statusMethod, dbConfigured, overallStatus,
                    httpStatus >>

\* index.ts:215-226
DetermineOverall ==
    /\ statusPc = "overall"
    /\ overallStatus' = OverallStatus(StatusesOf(services))
    /\ statusPc' = "store"
    /\ UNCHANGED << besidesStatus, statusMethod, dbConfigured, services,
                    httpStatus >>

\* index.ts:252-281  the health check is stored if the database is healthy;
\* a failure of the store is caught and changes nothing.
StoreHealthCheck ==
    /\ statusPc = "store"
    /\ statusPc' = "respond"
    /\ UNCHANGED << besidesStatus, statusMethod, dbConfigured, services,
                    overallStatus, httpStatus >>

\* index.ts:283-287
Respond ==
    /\ statusPc = "respond"
    /\ httpStatus' = HttpStatus(overallStatus)
    /\ statusPc' = "done"
    /\ UNCHANGED << besidesStatus, statusMethod, dbConfigured, services,
                    overallStatus >>

StatusNext ==
    \/ StatusPreflight \/ CheckOpenRouter \/ CheckDatabase \/ TestProcessing
    \/ CheckEdgeFunctions \/ DetermineOverall \/ StoreHealthCheck \/ Respond

StatusSpec == StatusInit /\ [][StatusNext]_vars

\* ------------------------------------------------------------------ claims

\* The request ended with the 200 response that carries result.
Succeeded == pc = "done" /\ response.kind = "result"

\* The positions of the files array that group g (of duplicateGroups) lists.
Members(g) == { g.files[m] : m \in 1..Len(g.files) }

\* duplicate_groups[k] of the result is formattedGroups[k], the groupInfo of
\* duplicateGroups[k]; the indices of the emitted groups:
Emitted == 1..Len(formattedGroups)

SimilarityGroups ==
    { k \in Emitted :
        formattedGroups[k].detection_method = "ai_content_similarity" }

ExactHashGroups ==
    { k \in Emitted : formattedGroups[k].detection_method = "exact_hash_match" }

\* The collaborator calls answered with a score at or above the threshold.
PassingCalls ==
    { c \in 1..Len(calls) :
        calls[c].outcome = "scored" /\ calls[c].score >= similarityThreshold }

\* The exact-match key as the specification words it: the caller-supplied hash
\* if present, otherwise the surrogate of name, size and mime type.
ExactMatchKey(f) ==
    IF f.hash # "" THEN f.hash
    ELSE f.fileName \o "_" \o ToString(f.size) \o "_" \o f.mimeType

\* The positions whose file has the exact-match key of the file at p.
KeyClass(p) ==
    { q \in 1..Len(files) : ExactMatchKey(files[q]) = ExactMatchKey(files[p]) }

\* C1 (as claimed): in a scan's duplicate_groups no input file is a member of
\* two groups, exact_hash_match and ai_content_similarity groups together.
C1_NoDoubleMembership ==
    Succeeded =>
        \A p \in 1..Len(files) :
            Cardinality({ k \in Emitted : p \in Members(duplicateGroups[k]) }) <= 1

\* C2: every group a scan emits, from either pass, has at least 2 members.
C2_GroupsHaveTwoMembers ==
    /\ \A k \in Emitted : Len(formattedGroups[k].files) >= 2
    /\ \A k \in 1..Len(duplicateGroups) :
          Cardinality(Members(duplicateGroups[k])) >= 2

\* C2's case: a result that carries a group of each pass.
C2_Witness ==
    Succeeded /\ SimilarityGroups # {} /\ ExactHashGroups # {}

\* C3: every set of 2 or more files sharing one exact-match key is emitted as
\* exactly one exact_hash_match group of score 1.0 holding exactly those files
\* (and every exact_hash_match group is such a set), whatever includeSimilar
\* is and whatever the collaborator answered.
C3_ExactKeyClassesEmitted ==
    Succeeded =>
        /\ \A p \in 1..Len(files) :
              Cardinality(KeyClass(p)) >= 2 =>
                 Cardinality({ k \in ExactHashGroups :
                                 Members(duplicateGroups[k]) = KeyClass(p) }) = 1
        /\ \A k \in ExactHashGroups :
              /\ formattedGroups[k].similarity_score = ExactScore
              /\ Len(duplicateGroups[k].files) =
                    Cardinality(Members(duplicateGroups[k]))
              /\ \E p \in 1..Len(files) :
                    /\ Cardinality(KeyClass(p)) >= 2
                    /\ Members(duplicateGroups[k]) = KeyClass(p)

\* C3's case: the similarity pass ran and grouped files, and files sharing a
\* caller-supplied hash were in the input.
C3_Witness ==
    /\ Succeeded
    /\ includeSimilar
    /\ SimilarityGroups # {}
    /\ \E p \in 1..Len(files) :
          files[p].hash # "" /\ Cardinality(KeyClass(p)) >= 2

\* C4: with includeSimilar false a scan makes no collaborator call and emits
\* no ai_content_similarity group.
C4_NoSimilarityWhenExcluded ==
    ~includeSimilar =>
        /\ calls = << >>
        /\ \A k \in 1..Len(duplicateGroups) :
              duplicateGroups[k].detection_method # "ai_content_similarity"
        /\ SimilarityGroups = {}

\* C4's case: a finished scan with includeSimilar false over two candidate
\* files of different hashes, a pair the pass would have asked about.
C4_Witness ==
    /\ Succeeded
    /\ ~includeSimilar
    /\ \E a, b \in 1..Len(textFiles) :
          /\ a < b
          /\ FileHash(files[textFiles[a]]) # FileHash(files[textFiles[b]])

\* The hundredths of a MB nearest to n bytes (a tie to the larger).
BytesToMb(n) == (200 * n + BytesPerMB) \div (2 * BytesPerMB)

\* C5 (as claimed): every emitted group's potential savings is its total size
\* less the size of its largest member, in the result's unit (MB to two
\* decimals), and is not negative; the scan's total is the groups' sum.
C5_SavingsIsTotalLessLargest ==
    Succeeded =>
        /\ \A k \in Emitted :
              LET sizes == [m \in 1..Len(duplicateGroups[k].files) |->
                               files[duplicateGroups[k].files[m]].size]
              IN  /\ formattedGroups[k].potential_savings_mb =
                        BytesToMb(SumSeq(sizes) - MaxSeq(sizes))
                  /\ formattedGroups[k].potential_savings_mb >= 0
        /\ summary.total_potential_savings_mb =
              SumSeq([k \in Emitted |-> formattedGroups[k].potential_savings_mb])

\* C6 (as claimed): a scan of an empty files list returns a successful result
\* with total_files_scanned = 0, duplicate_groups_found = 0 and no groups.
C6_EmptyInputSucceeds ==
    (pc = "done" /\ method = "POST" /\ Len(files) = 0) =>
        /\ response.kind = "result"
        /\ summary.total_files_scanned = 0
        /\ summary.duplicate_groups_found = 0
        /\ formattedGroups = << >>

\* C6 (amended): a scan of an empty files list is rejected: the response is
\* the 500 error "Files array is required", and no group, no summary and no
\* collaborator call or store request was made for it.
C6_EmptyInputRejected ==
    (pc = "done" /\ method = "POST" /\ Len(files) = 0) =>
        /\ response = ErrorResponse("Files array is required")
        /\ duplicateGroups = << >>
        /\ formattedGroups = << >>
        /\ summary = NoSummary
        /\ calls = << >>
        /\ storeRequests = 0

\* C6's case: an answered POST with an empty files list, on a deployment
\* whose configuration is complete.
C6_Witness ==
    pc = "done" /\ method = "POST" /\ Len(files) = 0 /\ configOk

\* Every exact-match class of 2 or more files is an emitted exact group.
ExactClassesEmitted ==
    \A p \in 1..Len(files) :
        Cardinality(KeyClass(p)) >= 2 =>
            \E k \in ExactHashGroups : Members(duplicateGroups[k]) = KeyClass(p)

\* The pair loop went over every pair of candidates: each was asked about,
\* or skipped for having one hash, or skipped for a pair key seen earlier.
EveryPairVisited ==
    \A a, b \in 1..Len(textFiles) :
        a < b =>
            \/ \E c \in 1..Len(calls) :
                  calls[c].f1 = textFiles[a] /\ calls[c].f2 = textFiles[b]
            \/ FileHash(files[textFiles[a]]) = FileHash(files[textFiles[b]])
            \/ \E a0, b0 \in 1..Len(textFiles) :
                  /\ a0 < b0
                  /\ a0 < a \/ (a0 = a /\ b0 < b)
                  /\ PairKey(files[textFiles[a0]], files[textFiles[b0]]) =
                        PairKey(files[textFiles[a]], files[textFiles[b]])

\* Only pairs answered at or above the threshold made or grew similarity
\* groups: each member of one is a file of such a pair, and there are no more
\* similarity groups than such pairs.
OnlyPassingPairsGroup ==
    /\ \A k \in SimilarityGroups :
          \A m \in Members(duplicateGroups[k]) :
             \E c \in PassingCalls : m = calls[c].f1 \/ m = calls[c].f2
    /\ Cardinality(SimilarityGroups) <= Cardinality(PassingCalls)

\* C7: when collaborator calls failed (fetch threw, response not ok, reply
\* unparseable), the request still ends with the successful result, the loop
\* went on over every remaining pair, the failed pairs count as non-matches,
\* and every exact-hash group is in the result.
C7_CollaboratorFailureNotFatal ==
    (pc = "done" /\ \E c \in 1..Len(calls) : calls[c].outcome = "failed") =>
        /\ response = ResultResponse
        /\ EveryPairVisited
        /\ OnlyPassingPairsGroup
        /\ ExactClassesEmitted
        /\ \A c \in 1..Len(calls) :
              calls[c].outcome = "failed" =>
                 \A k \in SimilarityGroups :
                    Len(duplicateGroups[k].files) = 2 =>
                       Members(duplicateGroups[k]) # {calls[c].f1, calls[c].f2}

\* C7's case: a call failed, a later pair was still asked about and grouped,
\* and the result carries an exact-hash group.
C7_Witness ==
    /\ Succeeded
    /\ ExactHashGroups # {}
    /\ \E c, d \in 1..Len(calls) :
          c < d /\ calls[c].outcome = "failed" /\ d \in PassingCalls

\* C8 (as claimed): a pair of candidate files is merged into an
\* ai_content_similarity group if and only if the collaborator's score for it
\* is at or above similarityThreshold: every such pair ends in one similarity
\* group, and pairs below the threshold neither create nor extend a group.
C8_MergedIffAtThreshold ==
    Succeeded =>
        /\ \A c \in PassingCalls :
              \E k \in SimilarityGroups :
                 {calls[c].f1, calls[c].f2} \subseteq Members(duplicateGroups[k])
        /\ OnlyPassingPairsGroup

C10_SummaryAgreesWithGroups ==
    Succeeded =>
        /\ summary.total_files_scanned = Len(files)
        /\ summary.duplicate_groups_found = Len(formattedGroups)
        /\ summary.total_duplicate_files =
              SumSeq([k \in Emitted |-> Len(formattedGroups[k].files) - 1])

\* C10's case: a result of two groups, one of them of three files.
C10_Witness ==
    /\ Succeeded
    /\ Len(formattedGroups) = 2
    /\ \E k \in Emitted : Len(formattedGroups[k].files) = 3

\* The positions of s increase from each member to the next.
Ascending(s) == \A m, n \in 1..Len(s) : m < n => s[m] < s[n]

\* C12 (as claimed): in every emitted group, exact-hash or similarity, the
\* members are listed in ascending order of their position in the input.
C12_MembersInInputOrder ==
    Succeeded => \A k \in Emitted : Ascending(duplicateGroups[k].files)

\* C12 (amended): an exact-hash group lists its members in ascending input
\* position; a similarity group lists first the pair that created it, in
\* input order, and then each further member as it joined, a file of a pair
\* answered at or above the threshold after the creating pair.
C12_ExactInInputOrderSimilarityInJoinOrder ==
    Succeeded =>
        /\ \A k \in ExactHashGroups : Ascending(duplicateGroups[k].files)
        /\ \A k \in SimilarityGroups :
              LET members == duplicateGroups[k].files
              IN  /\ members[1] < members[2]
                  /\ \E c \in PassingCalls :
                        /\ calls[c].f1 = members[1]
                        /\ calls[c].f2 = members[2]
                        /\ \A m \in 3..Len(members) :
                              \E d \in PassingCalls :
                                 /\ c < d
                                 /\ members[m] \in {calls[d].f1, calls[d].f2}

\* C12's case: a similarity group that grew out of input order, beside an
\* exact-hash group.
C12_Witness ==
    /\ Succeeded
    /\ ExactHashGroups # {}
    /\ \E k \in SimilarityGroups :
          /\ Len(duplicateGroups[k].files) = 3
          /\ ~Ascending(duplicateGroups[k].files)

\* C13 (as claimed): in a similarity pass the collaborator is asked about
\* every pair of distinct candidate files whose exact-match keys differ.
C13_EveryDistinctKeyPairAsked ==
    (Succeeded /\ includeSimilar) =>
        \A a, b \in 1..Len(textFiles) :
            (a < b /\ ExactMatchKey(files[textFiles[a]])
                         # ExactMatchKey(files[textFiles[b]])) =>
                \E c \in 1..Len(calls) :
                    calls[c].f1 = textFiles[a] /\ calls[c].f2 = textFiles[b]

\* C14: within one scan the collaborator is asked at most once about any
\* pair of input files, a pair whose call failed included.
C14_EachPairAskedOnce ==
    \A c, d \in 1..Len(calls) :
        c # d => {calls[c].f1, calls[c].f2} # {calls[d].f1, calls[d].f2}

\* C14's case: a finished scan that asked about three pairs, one of which
\* failed.
C14_Witness ==
    /\ Succeeded
    /\ Len(calls) = 3
    /\ \E c \in 1..Len(calls) : calls[c].outcome = "failed"

\* C15 (as claimed): a scan writes nothing to any store, whoever calls.
C15_NothingStored == storeRequests = 0

\* C15 (amended): a scan never changes the request's files; it stores its
\* result at most once, only after the result is built and only when the
\* authorization header resolved to a user; for any other caller nothing is
\* stored.
C15_StoresOnlyForResolvedUser ==
    /\ [](/\ storeRequests <= 1
          /\ storeRequests = 1 => (userId # "" /\ Succeeded)
          /\ (pc = "done" /\ userId = "") => storeRequests = 0
          /\ (Succeeded /\ userId # "") => storeRequests = 1)
    /\ [][files' = files]_vars

\* C15's case: a scan answered for a resolved user, its result stored.
C15_Witness == Succeeded /\ userId # "" /\ storeRequests = 1 /\ calls # << >>

InSomeGroup(gs, p) == \E k \in 1..Len(gs) : p \in Members(gs[k])

\* C17 (as claimed): when a pair is answered at or above the threshold and
\* one of its files is already in a similarity group, no group is created and
\* a group holds both files afterwards (so a group is created only when
\* neither file is in one).
C17_ExtendsExistingGroup ==
    [][ (/\ pc = "pairs"
         /\ Len(calls') = Len(calls) + 1
         /\ calls'[Len(calls')].outcome = "scored"
         /\ calls'[Len(calls')].score >= similarityThreshold
         /\ \/ InSomeGroup(duplicateGroups, pos1)
            \/ InSomeGroup(duplicateGroups, pos2)) =>
            /\ Len(duplicateGroups') = Len(duplicateGroups)
            /\ \E k \in 1..Len(duplicateGroups') :
                  {pos1, pos2} \subseteq Members(duplicateGroups'[k])
      ]_vars

\* C11: a scan run twice on the same files, threshold and includeSimilar, with
\* a deterministic collaborator, gives identical results: the same response,
\* the same groups in the same order with the same members, scores and
\* detection methods, the same summary counters, and the same collaborator
\* calls; nothing of the first scan changes the second.
C11_RescanGivesSameResult ==
    (scan = 2 /\ pc = "done") =>
        /\ response = earlier.response
        /\ formattedGroups = earlier.groups
        /\ summary = earlier.summary
        /\ calls = earlier.calls

\* C11: a repeated scan has ended that asked the collaborator, had a failed
\* call, and returned a similarity group and an exact group.
C11_Witness ==
    /\ scan = 2
    /\ Succeeded
    /\ SimilarityGroups # {}
    /\ ExactHashGroups # {}
    /\ \E c \in 1..Len(calls) : calls[c].outcome = "failed"

\* A step in which ProtectedRoute is rendered: the authentication state and
\* the height of the history stack stay, what is rendered or the location
\* changes.
ProtectedRouteRenders ==
    /\ rendered = "none"
    /\ user' = user
    /\ loading' = loading
    /\ Len(history') = Len(history)
    /\ (rendered' # rendered \/ history' # history)

\* C18: ProtectedRoute with requireAuth = true and loading false.  Without a
\* user it never renders its children, and it redirects with replace to /login
\* carrying state.from = the requested pathname plus query string; with a user
\* it renders its children and issues no redirect.
C18_ProtectedRouteRequiresUser ==
    /\ []((currentRoute.requireAuth /\ ~user) =>
              (rendered # "children" /\ page = ""))
    /\ [][ (ProtectedRouteRenders /\ ~loading /\ currentRoute.requireAuth) =>
              IF user
              THEN /\ rendered' = "children"
                   /\ history' = history
                   /\ navigated' = navigated
              ELSE /\ rendered' # "children"
                   /\ page' = ""
                   /\ navigated' = [to |-> "/login",
                                    state |-> location.pathname
                                                \o location.search,
                                    replace |-> TRUE]
                   /\ history' = [history EXCEPT ![Len(history)] =
                                     Location("/login", "",
                                              location.pathname
                                                \o location.search)]
         ]_vars

\* C18: a path with a query string was asked for without a user, and the
\* redirect has led to /login with that path and query in state.from.
C18_Witness ==
    /\ ~user
    /\ ~loading
    /\ location = Location("/login", "", "/ai-analysis?tab=1")
    /\ navigated = [to |-> "/login", state |-> "/ai-analysis?tab=1",
                    replace |-> TRUE]

\* C19: while loading is true ProtectedRoute renders the loading screen only:
\* no children and no redirect, whatever requireAuth is and whether or not
\* there is a user.
C19_LoadingShowsOnlyLoadingScreen ==
    /\ [](loading => (rendered # "children" /\ page = ""))
    /\ [][ (ProtectedRouteRenders /\ loading) =>
              /\ rendered' = "loading"
              /\ page' = ""
              /\ history' = history
              /\ navigated' = navigated
         ]_vars

\* C19: the loading screen is shown on a route that requires authentication
\* while there is no user.
C19_Witness ==
    /\ loading
    /\ ~user
    /\ currentRoute.requireAuth
    /\ rendered = "loading"
    /\ navigated = NoNavigate

\* C20: an authenticated user at /login never gets the login page; once
\* authentication is resolved they are redirected to the remembered
\* state.from destination if there is one and to "/" otherwise.  The new
\* location is the one whose pathname and search make up the target.
C20_AuthenticatedLeavesLogin ==
    /\ []((user /\ location.pathname = "/login") =>
              (rendered # "children" /\ page # "LoginPage"))
    /\ [][ (ProtectedRouteRenders /\ ~loading /\ user
              /\ location.pathname = "/login") =>
              LET target == IF location.state # "" THEN location.state
                            ELSE "/"
                  arrived == history'[Len(history')]
              IN  /\ navigated'.to = target
                  /\ arrived.pathname \o arrived.search = target
                  /\ \A k \in 1..Len(arrived.pathname) :
                        SubSeq(arrived.pathname, k, k) # "?"
                  /\ arrived.search # "" => SubSeq(arrived.search, 1, 1) = "?"
                  /\ arrived.pathname # "/login"
                  /\ rendered' # "children"
                  /\ page' = ""
         ]_vars

\* C20: a user who signed in at /login has been redirected to the remembered
\* destination, a path with a query string.
C20_Witness ==
    /\ user
    /\ navigated = [to |-> "/ai-analysis?tab=1", state |-> "",
                    replace |-> TRUE]
    /\ location = Location("/ai-analysis", "?tab=1", "")

\* C21: a user who is signed in and opens a path that no route names ends on
\* the Page Not Found page: whatever page is mounted at the end of a chain
\* that started on such a path is the element of the '*' route.
C21_UnknownPathEndsOnNotFound ==
    ( /\ user
      /\ ~loading
      /\ page # ""
      /\ MatchedRoute(chain[1].pathname).path = "*" )
        => page = "NotFoundPage"

\* C22: return after login.  Without a user, a request for a protected path P
\* leads to /login with from = P; from stays while the user signs in there;
\* and with a user the redirect from /login goes to P, its pathname and its
\* query string, not to the default "/".
C22_ReturnAfterLogin ==
    /\ [][ (ProtectedRouteRenders /\ ~loading /\ ~user
              /\ currentRoute.requireAuth) =>
              history'[Len(history')] =
                  Location("/login", "", location.pathname \o location.search)
         ]_vars
    /\ [][ (location.pathname = "/login" /\ ~user /\ user') =>
              history' = history ]_vars
    /\ [][ (ProtectedRouteRenders /\ ~loading /\ user
              /\ location.pathname = "/login" /\ location.state # "") =>
              \E pathname \in Paths, search \in Searches :
                 /\ MatchedRoute(pathname).requireAuth
                 /\ location.state = pathname \o search
                 /\ history'[Len(history')] = Location(pathname, search, "")
         ]_vars

\* C22: a user who asked for a page with a query string, was sent to /login
\* and signed in there, has that page mounted at that path and query.
C22_Witness ==
    /\ user
    /\ ~loading
    /\ Len(chain) = 2
    /\ chain[1] = Location("/login", "", "/ai-analysis?tab=1")
    /\ location = Location("/ai-analysis", "?tab=1", "")
    /\ page = "AIAnalysisPage"

\* C27: with loading false and the authentication state fixed, the redirects
\* of the route table's Navigate elements and of ProtectedRoute never come
\* back to a location the chain has held, and until a page is mounted there
\* is a next step: the chain is finite and ends on a page.
C27_RedirectChainsEnd ==
    /\ ~Looped(chain)
    /\ (~loading /\ page = "") =>
          ENABLED (RedirectToLogin \/ RedirectAuthenticated \/ RenderChildren
                     \/ MountPage \/ ElementNavigates)

\* C27: a chain of three redirects, from /login over two legacy paths, has
\* ended on the dashboard.
C27_Witness ==
    /\ ~loading
    /\ Len(chain) = 4
    /\ chain[1].pathname = "/login"
    /\ chain[2].pathname = "/insights"
    /\ chain[3].pathname = "/dashboard"
    /\ page = "DashboardPage"

\* C23: a click on a Sidebar link calls onClose if and only if the device is
\* mobile and an onClose was supplied; on desktop the click navigates and
\* onClose is not called; a missing onClose makes no click fail.
C23_LinkClickClosesOnMobileOnly ==
    [][ clicked' # clicked =>
           /\ clicked'.to \in LinkPaths
           /\ clicked'.onCloseCalled <=> (nav["Sidebar"].isMobile /\ onClose)
           /\ ~nav["Sidebar"].isMobile => ~clicked'.onCloseCalled
           /\ ~clicked'.failed
      ]_vars

\* C23: a link was clicked on a mobile device in a Sidebar that has an
\* onClose: it was called, and nothing failed.
C23_Witness ==
    /\ clicked # NoClick
    /\ nav["Sidebar"].isMobile
    /\ onClose
    /\ clicked.onCloseCalled
    /\ ~clicked.failed

\* C29: the sidebarOpen the TopBar uses for its menu button and the isOpen
\* MainLayout passes to the Sidebar are one and the same value after any
\* toggles, resizes, outside clicks and Escape presses.
C29_OneSidebarState ==
    nav["TopBar"].sidebarOpen = nav["MainLayout"].sidebarOpen

\* C28: from a change of location until the progress of that navigation has
\* reached 100 (its timer3 has fired) the bar is visible and its progress is
\* not reset: no timer of an earlier navigation hides it in between.
C28_VisibleUntilComplete ==
    timers["timer3"] # NoTimer => (isVisible /\ progress >= 20)

\* C24: isScanning is true exactly while a detectDuplicates call is
\* outstanding; at most one call is outstanding; the button cannot start a
\* scan while one is outstanding; and the step in which the call resolves or
\* rejects sets isScanning back to false.
C24_ScanningWhileOutstanding ==
    /\ [](isScanning <=> pending = 1)
    /\ [](pending <= 1)
    /\ [](isScanning => ~ENABLED ClickScan)
    /\ [](isScanning => ENABLED CallResolves /\ ENABLED CallRejects)
    /\ [][pending' < pending => ~isScanning']_vars

\* C24 happens: a second scan is outstanding, after the first was settled.
C24_Witness == isScanning /\ started = 2 /\ pending = 1

C26_KeptFileIsLargest ==
    Succeeded =>
        \A k \in Emitted :
            LET infos == formattedGroups[k].files
            IN  /\ \A m \in 1..Len(infos) :
                       Label(m - 1) = "Keep (Largest)" =>
                           infos[m].size_mb = LargestFileSize(infos)
                /\ Cardinality({ m \in 1..Len(infos) :
                                    Label(m - 1) = "Keep (Largest)" }) = 1

\* C30: in every answer of ai-provider-status to a request that is not a
\* preflight, overall_status follows the precedence error, degraded, healthy
\* (all services healthy or not_configured), partial over the statuses of the
\* services, and the HTTP status is 200 exactly for healthy, 503 exactly for
\* error and 206 otherwise; the derivation does so for every combination of
\* service statuses, also the ones no run produces.
C30_OverallStatusAndHttpStatus ==
    LET Precedence(S) ==
            CASE "error" \in S -> "error"
              [] "error" \notin S /\ "degraded" \in S -> "degraded"
              [] S \cap { "error", "degraded" } = {}
                    /\ S \subseteq { "healthy", "not_configured" } -> "healthy"
              [] OTHER -> "partial"
    IN  /\ (statusPc = "done" /\ statusMethod # "OPTIONS") =>
              /\ Len(services) = 4
              /\ overallStatus =
                     Precedence({ services[k].status : k \in 1..Len(services) })
              /\ httpStatus = 200 <=> overallStatus = "healthy"
              /\ httpStatus = 503 <=> overallStatus = "error"
              /\ httpStatus = 206 <=>
                     overallStatus \notin { "healthy", "error" }
        /\ \A statuses \in [1..4 -> ServiceStatuses] :
              /\ OverallStatus(statuses) =
                     Precedence({ statuses[k] : k \in 1..4 })
              /\ HttpStatus(OverallStatus(statuses)) =
                     CASE OverallStatus(statuses) = "healthy" -> 200
                       [] OverallStatus(statuses) = "error" -> 503
                       [] OTHER -> 206

\* C30 happens: OpenRouter answers but not ok, so the processing test is
\* 'unavailable'; the answer is 'degraded' with HTTP status 206.
C30_Witness ==
    /\ statusPc = "done"
    /\ ServiceStatus("ai_processing") = "unavailable"
    /\ overallStatus = "degraded"
    /\ httpStatus = 206

====
